---- MODULE Spec2Model ----
(***************************************************************************)
(* A model of the stanza log agent: the file input operator (package file),*)
(* the copy (fan-out) operator (package plugin), getMatches, and the       *)
(* LogAgent lifecycle (package agent).                                     *)
(***************************************************************************)
EXTENDS Integers, Sequences, FiniteSets, TLC

VARIABLES
  \* ---- getMatches (package file) ----
  includes,      \* []string: each pattern is the set of paths it matches
  excludes,      \* []string: each pattern is the set of paths it matches
  fsPaths,       \* the paths that exist in the file system
  matches,       \* the slice getMatches returned
  mpc,           \* "call" before the call, "done" after it
  \* ---- LogAgent (package agent) ----
  running,       \* LogAgent.running
  database,      \* LogAgent.database: "nil" or "open"
  pipeline,      \* LogAgent.pipeline: "nil", "built" (not started) or "started"
  dbHolder,      \* who holds the lock of the database file: "none", "agent", "other"
  ret,           \* what the last call returned: "none", "nil" or the failing stage
  lastOp,        \* the last call: "none", "Start", "Stop"
  prevRunning,   \* LogAgent.running when the last call was made
  calls,         \* Start and Stop calls made so far
  dbOpens,       \* OpenDatabase calls made by Start so far
  builds,        \* BuildPipeline calls since the last effective Stop
  pstarts,       \* pipeline.Start calls since the last effective Stop
  pstops,        \* pipeline.Stop calls since the last successful Start
  stagesRun,     \* the stages the last Start call executed, in order
  stageFailed,   \* the stages the last Start call executed that failed
  apc,           \* the agent's call in progress: "idle", "starting" or "stopping"
  \* ---- CopyPlugin (package plugin) ----
  outputs,       \* CopyPlugin.outputs: the output ids, in configuration order
  cin,           \* the entries in the channel p.Input()
  cinClosed,     \* whether p.Input() was closed
  cpc,           \* the goroutine of Start: "recv", "send" or "done"
  cur,           \* the entry read from p.Input() (NoEntry outside "send")
  ci,            \* the index in outputs of the next output to send to
  outq,          \* the entries in each output's channel output.Input()
  recv,          \* the entries each output's consumer has received, in order
  stalled,       \* the outputs whose consumer never receives
  heap,          \* the record behind each address (0: not allocated)
  src,           \* the entries sent to p.Input(), in order
  taken,         \* the entries the goroutine has read from p.Input(), in order
  \* ---- InputOperator (package file) ----
  opc,           \* the operator: "built", "running", "waiting" (Stop is in wg.Wait), "stopped"
  startAtBeginning, \* InputOperator.startAtBeginning (start_at: beginning)
  knownFiles,    \* InputOperator.knownFiles: path -> index in readers
  readers,       \* the FileReader objects: [Path, Fingerprint, Offset]
  persisted,     \* the persister's value under knownFilesKey (NoDoc: absent)
  pollPc,        \* pollForNewFiles: "off", "select", "batch" or "scan"
  firstCheck,    \* pollForNewFiles' firstCheck
  batch,         \* the matches of this tick that checkPath has not seen yet
  newReader,     \* newFileReader's newReader while knownFiles is searched
  scanLeft,      \* the paths of knownFiles the search has not visited yet
  waiting,       \* per reader: scheduled ReadToEnd goroutines that have not locked it
  active,        \* per reader: the inode its running ReadToEnd has open (0: unlocked)
  dir,           \* the file system: path -> inode (0: no file)
  content,       \* the file system: inode -> the records of the file
  qlen,          \* the entries in the downstream queue
  emitted,       \* per inode: the records handed downstream, in order
  warned,        \* "no files match" warnings since Start
  ticks,         \* poll ticks so far
  tickNo,        \* poll ticks since Start
  restarts,      \* Start calls after a Stop so far
  renames,       \* renames of files so far
  cleanRot,      \* whether every rename and create so far happened between ticks
  \* ---- the command `offsets clear` (package commands) ----
  offsetsBucket, \* whether the database has the bucket helper.OffsetsBucket
  pluginBuckets, \* the plugin ids that have a bucket in the offsets bucket
  args,          \* the plugin ids given on the command line, in order
  allFlag,       \* the flag --all (`all`)
  dbBusy,        \* whether another process holds the lock of the database file
  cmdPc,         \* "run" before the command runs, "done" after it
  exitCode,      \* the exit code of the command
  offsetsBucket0, \* offsetsBucket before the command
  pluginBuckets0 \* pluginBuckets before the command

matchVars == <<includes, excludes, fsPaths, matches, mpc>>

agentVars == <<running, database, pipeline, dbHolder, ret, lastOp, prevRunning,
               calls, dbOpens, builds, pstarts, pstops, stagesRun, stageFailed,
               apc>>

copyVars == <<outputs, cin, cinClosed, cpc, cur, ci, outq, recv, stalled, heap,
              src, taken>>

fileVars == <<opc, startAtBeginning, knownFiles, readers, persisted, pollPc,
              firstCheck, batch, newReader, scanLeft, waiting, active, dir,
              content, qlen, emitted, warned, ticks, tickNo, restarts, renames,
              cleanRot>>

cmdVars == <<offsetsBucket, pluginBuckets, args, allFlag, dbBusy, cmdPc, exitCode,
             offsetsBucket0, pluginBuckets0>>

vars == <<matchVars, agentVars, copyVars, fileVars, cmdVars>>

\* ------------------------------------------------------------------------
\* Bounds
\* ------------------------------------------------------------------------
\* Paths are 1..MaxPath; their order is the lexical order filepath.Glob sorts by.
MaxPath == 3
\* The longest include list and the longest exclude list.
MaxPatterns == 2
\* The number of Start and Stop calls made on one LogAgent.
MaxCalls == 6
\* The number of entries sent to the copy operator's input.
MaxEntries == 2
\* The capacity of the copy operator's input channel and of each output's.
ChanCap == 1
\* The paths the file input operator's include pattern matches are 1..MaxFilePath.
MaxFilePath == 2
\* The files (inodes) ever created.
MaxInodes == 2
\* The records written to all files together.
MaxRecords == 3
\* The renames of files.
MaxRenames == 1
\* The poll ticks of the file input operator.
MaxTicks == 2
\* The Start calls that follow a Stop.
MaxRestarts == 1
\* The capacity of the queue downstream of the file input operator.
QueueCap == 1
\* InputOperator.fingerprintBytes, counted in records.
FingerprintBytes == 1
\* The plugin (operator) ids of the offsets command are 1..MaxPlugins.
MaxPlugins == 3
\* The longest list of plugin ids given to the offsets command.
MaxArgs == 2

PathIds == 1..MaxPath

\* ------------------------------------------------------------------------
\* Helpers
\* ------------------------------------------------------------------------
Min(a, b) == IF a < b THEN a ELSE b

SeqsUpTo(S, n) == UNION {[1..k -> S] : k \in 0..n}

Range(s) == {s[i] : i \in 1..Len(s)}

RECURSIVE SortedSeq(_)
\* The elements of a set of integers in increasing order.
SortedSeq(S) ==
  IF S = {} THEN <<>>
  ELSE LET m == CHOOSE x \in S : \A y \in S : x <= y
       IN <<m>> \o SortedSeq(S \ {m})

\* ------------------------------------------------------------------------
\* The state of each part when another part's specification runs
\* ------------------------------------------------------------------------
\* NewLogAgent: no database, no pipeline, not running.
AgentIdle ==
  /\ running = FALSE
  /\ database = "nil"
  /\ pipeline = "nil"
  /\ dbHolder = "none"
  /\ ret = "none"
  /\ lastOp = "none"
  /\ prevRunning = FALSE
  /\ calls = 0
  /\ dbOpens = 0
  /\ builds = 0
  /\ pstarts = 0
  /\ pstops = 0
  /\ stagesRun = <<>>
  /\ stageFailed = {}
  /\ apc = "idle"

OutputIds == {"A", "B"}

NoEntry == [ts |-> 0, rec |-> 0]

\* A copy operator that was built and not started, with nothing sent to it.
CopyIdle ==
  /\ outputs = <<"A", "B">>
  /\ cin = <<>>
  /\ cinClosed = FALSE
  /\ cpc = "recv"
  /\ cur = NoEntry
  /\ ci = 1
  /\ outq = [o \in OutputIds |-> <<>>]
  /\ recv = [o \in OutputIds |-> <<>>]
  /\ stalled = {}
  /\ heap = <<>>
  /\ src = <<>>
  /\ taken = <<>>

NoDoc == [count |-> -1, recs |-> <<>>]

NoReader == [Path |-> 0, Fingerprint |-> <<>>, Offset |-> 0]

FilePaths == 1..MaxFilePath

Inodes == 1..MaxInodes

\* A file input operator that was built and not started, over an empty directory.
FileIdle ==
  /\ opc = "built"
  /\ startAtBeginning = FALSE
  /\ knownFiles = [p \in FilePaths |-> 0]
  /\ readers = <<>>
  /\ persisted = NoDoc
  /\ pollPc = "off"
  /\ firstCheck = TRUE
  /\ batch = <<>>
  /\ newReader = NoReader
  /\ scanLeft = {}
  /\ waiting = <<>>
  /\ active = <<>>
  /\ dir = [p \in FilePaths |-> 0]
  /\ content = [i \in Inodes |-> <<>>]
  /\ qlen = 0
  /\ emitted = [i \in Inodes |-> <<>>]
  /\ warned = 0
  /\ ticks = 0
  /\ tickNo = 0
  /\ restarts = 0
  /\ renames = 0
  /\ cleanRot = TRUE

\* A database without offsets, and no command run on it.
CmdIdle ==
  /\ offsetsBucket = FALSE
  /\ pluginBuckets = {}
  /\ args = <<>>
  /\ allFlag = FALSE
  /\ dbBusy = FALSE
  /\ cmdPc = "run"
  /\ exitCode = 0
  /\ offsetsBucket0 = FALSE
  /\ pluginBuckets0 = {}

MatchesIdle ==
  /\ includes = <<>>
  /\ excludes = <<>>
  /\ fsPaths = {}
  /\ matches = <<>>
  /\ mpc = "call"

\* ------------------------------------------------------------------------
\* getMatches
\* ------------------------------------------------------------------------
\* filepath.Glob(include): the existing paths the pattern matches, sorted.
Glob(include, fs) == SortedSeq(include \cap fs)

\* filepath.Match(exclude, match)
Match(exclude, match) == match \in exclude

RECURSIVE scanMatches(_, _, _, _)
\* The loop labelled INCLUDE over one include pattern's matches. `break INCLUDE`
\* leaves this loop: the remaining matches of the pattern are not visited.
scanMatches(globbed, i, excl, all) ==
  IF i > Len(globbed) THEN all
  ELSE LET match == globbed[i] IN
       IF \E j \in 1..Len(excl) : Match(excl[j], match) THEN all
       ELSE IF \E k \in 1..Len(all) : all[k] = match THEN all
       ELSE scanMatches(globbed, i + 1, excl, Append(all, match))

RECURSIVE getMatchesFrom(_, _, _, _, _)
getMatchesFrom(incl, n, excl, fs, all) ==
  IF n > Len(incl) THEN all
  ELSE getMatchesFrom(incl, n + 1, excl, fs,
                      scanMatches(Glob(incl[n], fs), 1, excl, all))

getMatches(incl, excl, fs) == getMatchesFrom(incl, 1, excl, fs, <<>>)

\* ---- the specification of getMatches: every input, then one call ----
InitMatches ==
  /\ includes \in SeqsUpTo(SUBSET PathIds, MaxPatterns)
  /\ excludes \in SeqsUpTo(SUBSET PathIds, MaxPatterns)
  /\ fsPaths \in SUBSET PathIds
  /\ matches = <<>>
  /\ mpc = "call"
  /\ AgentIdle
  /\ CopyIdle
  /\ FileIdle
  /\ CmdIdle

CallGetMatches ==
  /\ mpc = "call"
  /\ matches' = getMatches(includes, excludes, fsPaths)
  /\ mpc' = "done"
  /\ UNCHANGED <<includes, excludes, fsPaths, agentVars, copyVars, fileVars, cmdVars>>

NextMatches == CallGetMatches

SpecMatches == InitMatches /\ [][NextMatches]_vars

\* The paths that match at least one include pattern and no exclude pattern.
IncludeMinusExclude ==
  {p \in fsPaths : /\ \E i \in 1..Len(includes) : p \in includes[i]
                   /\ \A j \in 1..Len(excludes) : p \notin excludes[j]}

\* C3: getMatches returns exactly the paths that match an include pattern and
\* no exclude pattern, each exactly once.
C3_GetMatchesIsIncludeMinusExclude ==
  mpc = "done" =>
     /\ Range(matches) = IncludeMinusExclude
     /\ Len(matches) = Cardinality(Range(matches))

\* ------------------------------------------------------------------------
\* LogAgent (package agent)
\* ------------------------------------------------------------------------
InitAgent == AgentIdle /\ MatchesIdle /\ CopyIdle /\ FileIdle /\ CmdIdle

\* OpenDatabase: bbolt.Open with a 1 second timeout. It fails when the file lock
\* is held (by another process, or by a handle this agent never closed) and on
\* any other error (ioErr).
OpenDatabaseOk(ioErr) == ~ioErr /\ dbHolder = "none"

\* LogAgent.Start with a running agent: `if a.running { return nil }`.
StartRunning ==
  /\ ret' = "nil"
  /\ stagesRun' = <<>>
  /\ stageFailed' = {}
  /\ UNCHANGED <<running, database, pipeline, dbHolder, dbOpens, builds, pstarts,
                 pstops>>

\* The stages of LogAgent.Start after the `a.running` test. ioErr, regErr,
\* buildErr, startErr: whether OpenDatabase, NewCustomRegistry, BuildPipeline,
\* pipeline.Start fail. A failure of NewCustomRegistry is logged and Start goes
\* on to build the pipeline.
StartStages(ioErr, regErr, buildErr, startErr) ==
  /\ dbOpens' = dbOpens + 1
  /\ IF ~OpenDatabaseOk(ioErr)
       THEN /\ ret' = "open database"
            /\ stagesRun' = <<"open database">>
            /\ stageFailed' = {"open database"}
            /\ UNCHANGED <<running, database, pipeline, dbHolder, builds, pstarts,
                           pstops>>
       ELSE /\ database' = "open"
            /\ dbHolder' = "agent"
            /\ builds' = builds + 1
            /\ IF buildErr
                 THEN /\ ret' = "build pipeline"
                      /\ stagesRun' = <<"open database", "load registry",
                                        "build pipeline">>
                      /\ stageFailed' = {"build pipeline"} \cup
                                        (IF regErr THEN {"load registry"} ELSE {})
                      /\ UNCHANGED <<running, pipeline, pstarts, pstops>>
                 ELSE /\ pstarts' = pstarts + 1
                      /\ stagesRun' = <<"open database", "load registry",
                                        "build pipeline", "Start pipeline">>
                      /\ IF startErr
                           THEN /\ ret' = "Start pipeline"
                                /\ stageFailed' = {"Start pipeline"} \cup
                                      (IF regErr THEN {"load registry"} ELSE {})
                                /\ pipeline' = "built"
                                /\ UNCHANGED <<running, pstops>>
                           ELSE /\ ret' = "nil"
                                /\ stageFailed' =
                                      (IF regErr THEN {"load registry"} ELSE {})
                                /\ pipeline' = "started"
                                /\ running' = TRUE
                                /\ pstops' = 0

\* LogAgent.Start without the test of a.running.
StartBodyUnguarded(ioErr, regErr, buildErr, startErr) ==
  StartStages(ioErr, regErr, buildErr, startErr)

StartBody(ioErr, regErr, buildErr, startErr) ==
  IF running THEN StartRunning
  ELSE StartStages(ioErr, regErr, buildErr, startErr)

\* LogAgent.Start
AgentStart ==
  /\ apc = "idle"
  /\ calls < MaxCalls
  /\ \E ioErr \in BOOLEAN, regErr \in BOOLEAN, buildErr \in BOOLEAN,
        startErr \in BOOLEAN :
        StartBody(ioErr, regErr, buildErr, startErr)
  /\ lastOp' = "Start"
  /\ prevRunning' = running
  /\ calls' = calls + 1
  /\ UNCHANGED <<apc, matchVars, copyVars, fileVars, cmdVars>>

StopBody ==
  IF ~running
    THEN UNCHANGED <<running, database, pipeline, dbHolder, builds, pstarts, pstops>>
    ELSE /\ pstops' = pstops + 1
         /\ pipeline' = "nil"
         /\ database' = "nil"
         /\ dbHolder' = "none"
         /\ running' = FALSE
         /\ builds' = 0
         /\ pstarts' = 0

\* LogAgent.Stop
AgentStop ==
  /\ apc = "idle"
  /\ calls < MaxCalls
  /\ StopBody
  /\ ret' = "none"
  /\ lastOp' = "Stop"
  /\ prevRunning' = running
  /\ calls' = calls + 1
  /\ UNCHANGED <<dbOpens, stagesRun, stageFailed, apc, matchVars, copyVars, fileVars, cmdVars>>

\* Another process (the offsets command) opens the database file and holds its lock.
OtherOpen ==
  /\ dbHolder = "none"
  /\ dbHolder' = "other"
  /\ UNCHANGED <<running, database, pipeline, ret, lastOp, prevRunning, calls,
                 dbOpens, builds, pstarts, pstops, stagesRun, stageFailed,
                 apc, matchVars, copyVars, fileVars, cmdVars>>

\* The other process closes the database (`defer db.Close()`).
OtherClose ==
  /\ dbHolder = "other"
  /\ dbHolder' = "none"
  /\ UNCHANGED <<running, database, pipeline, ret, lastOp, prevRunning, calls,
                 dbOpens, builds, pstarts, pstops, stagesRun, stageFailed,
                 apc, matchVars, copyVars, fileVars, cmdVars>>

NextAgent == AgentStart \/ AgentStop \/ OtherOpen \/ OtherClose

SpecAgent == InitAgent /\ [][NextAgent]_vars

\* C10: between two effective Stops the pipeline is built and started at most
\* once, and it is stopped at most once per successful Start; Start on a running
\* agent returns nil and opens, builds and starts nothing; Stop on an agent that
\* is not running changes nothing.
C10_StartStopAtMostOnce ==
  /\ [](builds <= 1 /\ pstarts <= 1 /\ pstops <= 1)
  /\ [][(calls' = calls + 1 /\ lastOp' = "Start" /\ running) =>
          (ret' = "nil" /\ UNCHANGED <<running, database, pipeline, dbHolder,
                                       dbOpens, builds, pstarts, pstops>>)]_vars
  /\ [][(calls' = calls + 1 /\ lastOp' = "Stop" /\ ~running) =>
          UNCHANGED <<running, database, pipeline, dbHolder, dbOpens, builds,
                      pstarts, pstops>>]_vars

\* Start was called on a running agent, after a Stop of a running agent and a
\* second successful Start.
C10_Witness ==
  /\ lastOp = "Start" /\ prevRunning /\ running /\ ret = "nil"
  /\ dbOpens >= 2

\* The stages of Start, in the order Start executes them.
Stages == <<"open database", "load registry", "build pipeline", "Start pipeline">>

\* The first stage the last Start call executed that failed.
FirstFailed ==
  Stages[CHOOSE i \in 1..Len(Stages) :
            /\ Stages[i] \in stageFailed
            /\ \A j \in 1..(i - 1) : Stages[j] \notin stageFailed]

\* C11: when a stage of Start fails (open database, load registry, build
\* pipeline, start pipeline), Start returns the error of the first failing
\* stage, executes no later stage and leaves the agent not running; Start
\* returns nil only with the agent running and its pipeline started.
C11_StartAbortsAtFirstFailure ==
  /\ (lastOp = "Start" /\ ~prevRunning /\ stageFailed # {}) =>
        /\ ret = FirstFailed
        /\ stagesRun[Len(stagesRun)] = FirstFailed
        /\ ~running
  /\ (lastOp = "Start" /\ ret = "nil") => (running /\ pipeline = "started")

\* C21: after any Start and Stop calls, failed Starts included, an agent that
\* is not running holds no database handle and no lock of the database file, so
\* that the next OpenDatabase finds the file free of this agent.
C21_NotRunningHoldsNoDatabase ==
  ~running => (database = "nil" /\ dbHolder # "agent")

\* ------------------------------------------------------------------------
\* The command `offsets clear` (package commands)
\* ------------------------------------------------------------------------
PluginIds == 1..MaxPlugins

RECURSIVE clearNamed(_, _, _)
\* `for _, pluginID := range args`, one db.Update per id, with the offsets
\* bucket there: offsetBucket.DeleteBucket(pluginID) deletes the plugin's bucket
\* or, when the plugin has none, returns an error; exitOnErr then exits with
\* code 1. The transactions of the ids before it are committed.
clearNamed(ids, i, buckets) ==
  IF i > Len(ids) THEN [buckets |-> buckets, exitCode |-> 0]
  ELSE IF ids[i] \notin buckets THEN [buckets |-> buckets, exitCode |-> 1]
  ELSE clearNamed(ids, i + 1, buckets \ {ids[i]})

\* Every database, argument list and flag; a database without the offsets
\* bucket has no plugin bucket.
InitOffsets ==
  /\ offsetsBucket \in BOOLEAN
  /\ pluginBuckets \in SUBSET PluginIds
  /\ ~offsetsBucket => pluginBuckets = {}
  /\ args \in SeqsUpTo(PluginIds, MaxArgs)
  /\ allFlag \in BOOLEAN
  /\ dbBusy \in BOOLEAN
  /\ cmdPc = "run"
  /\ exitCode = 0
  /\ offsetsBucket0 = offsetsBucket
  /\ pluginBuckets0 = pluginBuckets
  /\ AgentIdle
  /\ MatchesIdle
  /\ CopyIdle
  /\ FileIdle

\* The Run function of `offsets clear`: OpenDatabase (exit 1 when the file is
\* locked), then with --all the offsets bucket is deleted if it is there, and
\* without it every named plugin's bucket is deleted (exit 1 when no id is given).
OffsetsClear ==
  /\ cmdPc = "run"
  /\ cmdPc' = "done"
  /\ IF dbBusy
       THEN exitCode' = 1 /\ UNCHANGED <<offsetsBucket, pluginBuckets>>
       ELSE IF allFlag
         THEN /\ offsetsBucket' = FALSE
              /\ pluginBuckets' = {}
              /\ exitCode' = 0
         ELSE IF Len(args) = 0
           THEN exitCode' = 1 /\ UNCHANGED <<offsetsBucket, pluginBuckets>>
           ELSE IF ~offsetsBucket
             THEN exitCode' = 0 /\ UNCHANGED <<offsetsBucket, pluginBuckets>>
             ELSE /\ pluginBuckets' = clearNamed(args, 1, pluginBuckets).buckets
                  /\ exitCode' = clearNamed(args, 1, pluginBuckets).exitCode
                  /\ UNCHANGED offsetsBucket
  /\ UNCHANGED <<args, allFlag, dbBusy, offsetsBucket0, pluginBuckets0, matchVars,
                 agentVars, copyVars, fileVars>>

NextOffsets == OffsetsClear

SpecOffsets == InitOffsets /\ [][NextOffsets]_vars

\* C13: with a list of plugin ids the command deletes the offsets of exactly
\* the named plugins and leaves every other plugin's; with --all it deletes
\* the offsets of every plugin; on a database without the offsets bucket both
\* forms exit with code 0 and change nothing.
C13_ClearExactlyNamed ==
  (cmdPc = "done" /\ ~dbBusy) =>
     /\ (~allFlag /\ args # <<>>) => pluginBuckets = pluginBuckets0 \ Range(args)
     /\ allFlag => pluginBuckets = {}
     /\ (~offsetsBucket0 /\ (allFlag \/ args # <<>>)) =>
           (exitCode = 0 /\ ~offsetsBucket /\ pluginBuckets = {})

\* ------------------------------------------------------------------------
\* CopyPlugin (package plugin)
\* ------------------------------------------------------------------------
\* The marker a consumer writes when it mutates the record of an entry it holds.
Marker(o) == IF o = "A" THEN -1 ELSE -2

\* copyMap(e.Record): a fresh map, `at`, holding a deep copy of the record at `from`.
copyMap(h, from, at) == h \o <<h[from]>>

\* copyEntry without the copy: the entry itself, sharing its record.
copyEntryShared(e, h) == [entry |-> e, heap |-> h]

\* copyEntry: a new entry with the same timestamp and a copy of the record.
copyEntry(e, h) ==
  [entry |-> [ts |-> e.ts, rec |-> Len(h) + 1],
   heap  |-> copyMap(h, e.rec, Len(h) + 1)]

InitCopy ==
  /\ outputs \in {<<"A", "B">>, <<"B", "A">>}
  /\ cin = <<>>
  /\ cinClosed = FALSE
  /\ cpc = "recv"
  /\ cur = NoEntry
  /\ ci = 1
  /\ outq = [o \in OutputIds |-> <<>>]
  /\ recv = [o \in OutputIds |-> <<>>]
  /\ stalled \in {{}, {"A"}}
  /\ heap = <<>>
  /\ src = <<>>
  /\ taken = <<>>
  /\ AgentIdle
  /\ MatchesIdle
  /\ FileIdle
  /\ CmdIdle

\* The upstream operator sends an entry to p.Input(); its timestamp and its
\* record are the entry's number.
Produce ==
  /\ ~cinClosed
  /\ Len(src) < MaxEntries
  /\ Len(cin) < ChanCap
  /\ LET e == [ts |-> Len(src) + 1, rec |-> Len(heap) + 1] IN
       /\ heap' = Append(heap, Len(src) + 1)
       /\ cin' = Append(cin, e)
       /\ src' = Append(src, e)
  /\ UNCHANGED <<outputs, cinClosed, cpc, cur, ci, outq, recv, stalled, taken,
                 matchVars, agentVars, fileVars, cmdVars>>

\* The upstream operator closes p.Input().
CloseInput ==
  /\ ~cinClosed
  /\ cinClosed' = TRUE
  /\ UNCHANGED <<outputs, cin, cpc, cur, ci, outq, recv, stalled, heap, src,
                 taken, matchVars, agentVars, fileVars, cmdVars>>

\* `entry, ok := <-p.Input()`: an entry, or the end of the goroutine when the
\* channel is closed and empty.
CopyRecv ==
  /\ cpc = "recv"
  /\ \/ /\ cin # <<>>
        /\ cur' = Head(cin)
        /\ cin' = Tail(cin)
        /\ taken' = Append(taken, Head(cin))
        /\ ci' = 1
        /\ cpc' = "send"
     \/ /\ cin = <<>>
        /\ cinClosed
        /\ cpc' = "done"
        /\ UNCHANGED <<cur, cin, taken, ci>>
  /\ UNCHANGED <<outputs, cinClosed, outq, recv, stalled, heap, src, matchVars,
                 agentVars, fileVars, cmdVars>>

\* `output.Input() <- copyEntry(entry)` for the next output of the loop: the send
\* blocks while that output's channel is full.
CopySend ==
  /\ cpc = "send"
  /\ LET o == outputs[ci]
         c == copyEntry(cur, heap)
     IN /\ Len(outq[o]) < ChanCap
        /\ outq' = [outq EXCEPT ![o] = Append(@, c.entry)]
        /\ heap' = c.heap
  /\ IF ci = Len(outputs)
       THEN /\ cpc' = "recv"
            /\ cur' = NoEntry
            /\ ci' = 1
       ELSE /\ ci' = ci + 1
            /\ UNCHANGED <<cpc, cur>>
  /\ UNCHANGED <<outputs, cin, cinClosed, recv, stalled, src, taken, matchVars,
                 agentVars, fileVars, cmdVars>>

\* The consumer of output o receives from its channel.
Consume(o) ==
  /\ o \notin stalled
  /\ outq[o] # <<>>
  /\ recv' = [recv EXCEPT ![o] = Append(@, Head(outq[o]))]
  /\ outq' = [outq EXCEPT ![o] = Tail(@)]
  /\ UNCHANGED <<outputs, cin, cinClosed, cpc, cur, ci, stalled, heap, src, taken,
                 matchVars, agentVars, fileVars, cmdVars>>

\* The consumer of output o changes the record of an entry it has received.
Mutate(o) ==
  /\ \E i \in 1..Len(recv[o]) :
        /\ heap[recv[o][i].rec] # Marker(o)
        /\ heap' = [heap EXCEPT ![recv[o][i].rec] = Marker(o)]
  /\ UNCHANGED <<outputs, cin, cinClosed, cpc, cur, ci, outq, recv, stalled, src,
                 taken, matchVars, agentVars, fileVars, cmdVars>>

NextCopy ==
  \/ Produce
  \/ CloseInput
  \/ CopyRecv
  \/ CopySend
  \/ \E o \in OutputIds : Consume(o)
  \/ \E o \in OutputIds : Mutate(o)

SpecCopy == InitCopy /\ [][NextCopy]_vars

\* The goroutine of Start and the consumers that receive keep running.
SpecCopyFair ==
  /\ InitCopy
  /\ [][NextCopy]_vars
  /\ WF_vars(CopyRecv)
  /\ WF_vars(CopySend)
  /\ \A o \in OutputIds : WF_vars(Consume(o))

\* The entries handed to output o so far, in the order they were sent.
Delivered(o) == recv[o] \o outq[o]

Timestamps(s) == [i \in 1..Len(s) |-> s[i].ts]

Records(s) == {s[i].rec : i \in 1..Len(s)}

\* C4: delivery to B does not depend on A: every entry the copy operator has
\* read from its input is eventually delivered to B, also when A never receives.
C4_IndependentDelivery ==
  \A k \in 1..MaxEntries :
     (Len(taken) >= k) ~> (Len(Delivered("B")) >= k)

\* C5: every entry read from the input is delivered exactly once to A and once
\* to B, in input order, and each delivered entry has a record of its own: a
\* consumer's mutation shows neither in the source entry nor at the other output.
C5_ExactlyOnceInOrderDistinct ==
  /\ \A o \in OutputIds :
        /\ Len(Delivered(o)) <= Len(taken)
        /\ Timestamps(Delivered(o)) = Timestamps(SubSeq(taken, 1, Len(Delivered(o))))
        /\ cpc # "send" => Len(Delivered(o)) = Len(taken)
        /\ cpc = "send" => Len(Delivered(o)) >= Len(taken) - 1
        /\ Cardinality(Records(Delivered(o))) = Len(Delivered(o))
        /\ Records(Delivered(o)) \cap Records(src) = {}
        /\ \A i \in 1..Len(Delivered(o)) :
              heap[Delivered(o)[i].rec] \in {Delivered(o)[i].ts, Marker(o)}
  /\ Records(Delivered("A")) \cap Records(Delivered("B")) = {}
  /\ \A i \in 1..Len(src) : heap[src[i].rec] = src[i].ts
  /\ (cpc = "done" /\ stalled = {} /\ \A o \in OutputIds : outq[o] = <<>>) =>
        \A o \in OutputIds : Timestamps(recv[o]) = Timestamps(src)

\* Both outputs have received every entry and A has mutated one it received.
C5_Witness ==
  /\ cpc = "done"
  /\ Len(src) = MaxEntries
  /\ \A o \in OutputIds : Len(recv[o]) = MaxEntries
  /\ \E i \in 1..Len(recv["A"]) : heap[recv["A"][i].rec] = Marker("A")

\* ------------------------------------------------------------------------
\* InputOperator (package file)
\* ------------------------------------------------------------------------
\* The configured patterns: one include pattern that every path matches.
Include == <<FilePaths>>

Exclude == <<>>

\* The k-th record of the file with inode i: files differ in every record.
Rec(i, k) == i * 10 + k

\* The first fingerprintBytes of a file, or the whole file if it is shorter.
FingerprintOf(i) == SubSeq(content[i], 1, Min(Len(content[i]), FingerprintBytes))

\* Fingerprint.Matches: one is a prefix of the other and the shorter is not empty.
FpMatches(a, b) ==
  LET short == IF Len(a) <= Len(b) THEN a ELSE b
      long  == IF Len(a) <= Len(b) THEN b ELSE a
  IN Len(short) >= 1 /\ SubSeq(long, 1, Len(short)) = short

KnownPaths == {p \in FilePaths : knownFiles[p] # 0}

ExistingPaths == {p \in FilePaths : dir[p] # 0}

ReaderIds == 1..Len(readers)

\* ctx.Done() is closed: Stop has called f.cancel().
Cancelled == opc # "running"

\* The WaitGroup without the `f.wg.Add(1)` of the poll goroutine.
WgZeroReadersOnly == \A r \in ReaderIds : waiting[r] = 0 /\ active[r] = 0

\* The WaitGroup's counter is zero: the poll loop and every ReadToEnd returned.
WgZero ==
  /\ pollPc = "off"
  /\ \A r \in ReaderIds : waiting[r] = 0 /\ active[r] = 0

\* json.Encoder.Encode(fileReader) and its Decode: the exported fields.
EncodeReader(fr) == <<fr.Path, fr.Fingerprint, fr.Offset>>

\* Decode of a FileReader whose Offset field is not exported.
DecodeReaderNoOffset(t) == [Path |-> t[1], Fingerprint |-> t[2], Offset |-> 0]

DecodeReader(t) == [Path |-> t[1], Fingerprint |-> t[2], Offset |-> t[3]]

\* ReadToEnd without `f.Lock()`.
ReaderLockIgnored(r) == FALSE

\* The reader's lock is held: a ReadToEnd holds it from its first to its last
\* statement.
ReaderLocked(r) == active[r] # 0

RECURSIVE Orders(_)
\* The orders in which `range f.knownFiles` may visit a set of keys.
Orders(S) ==
  IF S = {} THEN {<<>>}
  ELSE UNION {{<<p>> \o o : o \in Orders(S \ {p})} : p \in S}

\* syncKnownFiles: the documents it may store, one per iteration order: the
\* number of known files, then each reader.
syncKnownFiles ==
  {[count |-> Cardinality(KnownPaths),
    recs  |-> [i \in 1..Len(o) |-> EncodeReader(readers[knownFiles[o[i]]])]] :
      o \in Orders(KnownPaths)}

\* loadKnownFiles: the readers decoded from the stored document, in its order.
LoadedReaders(doc) ==
  IF doc = NoDoc THEN <<>>
  ELSE [i \in 1..doc.count |-> DecodeReader(doc.recs[i])]

\* loadKnownFiles: `f.knownFiles[newFileReader.Path] = newFileReader`, so the last
\* decoded reader of a path is the one the map keeps.
LoadedKnownFiles(doc) ==
  LET rs == LoadedReaders(doc) IN
  [p \in FilePaths |->
     IF \E i \in 1..Len(rs) : rs[i].Path = p
       THEN CHOOSE i \in 1..Len(rs) :
              /\ rs[i].Path = p
              /\ \A j \in 1..Len(rs) : rs[j].Path = p => j <= i
       ELSE 0]

InitFile ==
  /\ opc = "built"
  /\ startAtBeginning \in BOOLEAN
  /\ knownFiles = [p \in FilePaths |-> 0]
  /\ readers = <<>>
  /\ persisted = NoDoc
  /\ pollPc = "off"
  /\ firstCheck = TRUE
  /\ batch = <<>>
  /\ newReader = NoReader
  /\ scanLeft = {}
  /\ waiting = <<>>
  /\ active = <<>>
  /\ dir = [p \in FilePaths |-> 0]
  /\ content = [i \in Inodes |-> <<>>]
  /\ qlen = 0
  /\ emitted = [i \in Inodes |-> <<>>]
  /\ warned = 0
  /\ ticks = 0
  /\ tickNo = 0
  /\ restarts = 0
  /\ renames = 0
  /\ cleanRot = TRUE
  /\ AgentIdle
  /\ MatchesIdle
  /\ CopyIdle
  /\ CmdIdle

otherVars == <<matchVars, agentVars, copyVars, cmdVars>>

\* ---- the file system and the downstream consumer ----
\* No tick is in progress and no ReadToEnd is scheduled or running.
Quiet ==
  /\ pollPc \in {"off", "select"}
  /\ \A r \in ReaderIds : waiting[r] = 0 /\ active[r] = 0

RECURSIVE SumLen(_, _)
SumLen(f, S) ==
  IF S = {} THEN 0
  ELSE LET x == CHOOSE y \in S : TRUE IN Len(f[x]) + SumLen(f, S \ {x})

\* The records written to all files so far.
TotalRecords == SumLen(content, Inodes)

\* A new file is created, with its first record, at a path where there is none.
CreateFile(p) ==
  /\ dir[p] = 0
  /\ TotalRecords < MaxRecords
  /\ \E i \in Inodes :
        /\ \A j \in Inodes : (\E q \in FilePaths : dir[q] = j) <=> (j < i)
        /\ dir' = [dir EXCEPT ![p] = i]
        /\ content' = [content EXCEPT ![i] = <<Rec(i, 1)>>]
  /\ cleanRot' = (cleanRot /\ Quiet)
  /\ UNCHANGED <<opc, startAtBeginning, knownFiles, readers, persisted, pollPc,
                 firstCheck, batch, newReader, scanLeft, waiting, active,
                 qlen, emitted, warned, ticks, tickNo, restarts, renames, otherVars>>

\* A record is appended to a file.
AppendFile(p) ==
  /\ dir[p] # 0
  /\ TotalRecords < MaxRecords
  /\ content' = [content EXCEPT ![dir[p]] = Append(@, Rec(dir[p], Len(@) + 1))]
  /\ UNCHANGED <<opc, startAtBeginning, knownFiles, readers, persisted, pollPc,
                 firstCheck, batch, newReader, scanLeft, waiting, active, dir,
                 qlen, emitted, warned, ticks, tickNo, restarts, renames,
                 cleanRot, otherVars>>

\* The file at p is renamed to q, where there is no file.
RenameFile(p, q) ==
  /\ dir[p] # 0
  /\ dir[q] = 0
  /\ renames < MaxRenames
  /\ renames' = renames + 1
  /\ dir' = [dir EXCEPT ![q] = dir[p], ![p] = 0]
  /\ cleanRot' = (cleanRot /\ Quiet)
  /\ UNCHANGED <<opc, startAtBeginning, knownFiles, readers, persisted, pollPc,
                 firstCheck, batch, newReader, scanLeft, waiting, active, content,
                 qlen, emitted, warned, ticks, tickNo, restarts, otherVars>>

\* The downstream operator takes an entry from the queue.
Receive ==
  /\ qlen > 0
  /\ qlen' = qlen - 1
  /\ UNCHANGED <<opc, startAtBeginning, knownFiles, readers, persisted, pollPc,
                 firstCheck, batch, newReader, scanLeft, waiting, active, dir,
                 content, emitted, warned, ticks, tickNo, restarts, renames,
                 cleanRot, otherVars>>

\* ---- variants of the code with one statement changed ----
\* Stop without `f.wg.Wait()`.
StopWaitSkipped == TRUE

\* The poll loop without `f.syncKnownFiles()`.
TickFlushSkipped == UNCHANGED persisted

\* Stop without `f.syncKnownFiles()`.
StopFlushSkipped == UNCHANGED persisted

\* newFileReader with `startAtBeginning := f.startAtBeginning`.
NewStartAtBeginningAnyTick(first) == startAtBeginning

\* The select without `case <-ctx.Done(): return`.
PollExitNever == FALSE /\ UNCHANGED vars

\* The warning with `len(matches) == 0` as its only condition.
WarnNoMatchesAnyTick(m) == Len(m) = 0

\* newFileReader's rename without `delete(f.knownFiles, oldPath)`.
RenamedKnownFilesOldKept(oldPath, path, r) == [knownFiles EXCEPT ![path] = r]

\* newFileReader's rename without `reader.Path = path`.
RenamedReaderPathKept(fr, path) == fr

\* ---- Start and Stop ----
\* InputOperator.Start: a new context and WaitGroup, loadKnownFiles, and the
\* goroutine of pollForNewFiles with firstCheck true.
Start ==
  /\ opc \in {"built", "stopped"}
  /\ opc = "stopped" => restarts < MaxRestarts
  /\ restarts' = IF opc = "stopped" THEN restarts + 1 ELSE restarts
  /\ readers' = LoadedReaders(persisted)
  /\ knownFiles' = LoadedKnownFiles(persisted)
  /\ waiting' = [r \in 1..Len(readers') |-> 0]
  /\ active' = [r \in 1..Len(readers') |-> 0]
  /\ pollPc' = "select"
  /\ firstCheck' = TRUE
  /\ tickNo' = 0
  /\ warned' = 0
  /\ opc' = "running"
  /\ UNCHANGED <<startAtBeginning, persisted, batch, newReader, scanLeft, dir,
                 content, qlen, emitted, ticks, renames, cleanRot, otherVars>>

\* InputOperator.Stop, `f.cancel()`: the context is cancelled and Stop waits.
StopCancel ==
  /\ opc = "running"
  /\ opc' = "waiting"
  /\ UNCHANGED <<startAtBeginning, knownFiles, readers, persisted, pollPc,
                 firstCheck, batch, newReader, scanLeft, waiting, active, dir,
                 content, qlen, emitted, warned, ticks, tickNo, restarts, renames,
                 cleanRot, otherVars>>

\* `f.wg.Wait()` has returned.
StopWaitDone == WgZero

\* `f.syncKnownFiles()` of Stop.
StopFlush == persisted' \in syncKnownFiles

\* InputOperator.Stop, from the return of `f.wg.Wait()`: syncKnownFiles, return.
StopSync ==
  /\ opc = "waiting"
  /\ StopWaitDone
  /\ StopFlush
  /\ opc' = "stopped"
  /\ UNCHANGED <<startAtBeginning, knownFiles, readers, pollPc, firstCheck, batch,
                 newReader, scanLeft, waiting, active, dir, content, qlen, emitted,
                 warned, ticks, tickNo, restarts, renames, cleanRot, otherVars>>

\* ---- pollForNewFiles ----
\* `case <-ctx.Done(): return`
PollExit ==
  /\ pollPc = "select"
  /\ Cancelled
  /\ pollPc' = "off"
  /\ UNCHANGED <<opc, startAtBeginning, knownFiles, readers, persisted, firstCheck,
                 batch, newReader, scanLeft, waiting, active, dir, content, qlen,
                 emitted, warned, ticks, tickNo, restarts, renames, cleanRot, otherVars>>

\* `f.syncKnownFiles()` of the poll loop.
TickFlush == persisted' \in syncKnownFiles

\* `if firstCheck && len(matches) == 0`: the warning that no files match.
WarnNoMatches(m) == firstCheck /\ Len(m) = 0

\* `case <-globTicker.C:` and the tick up to the loop over the matches:
\* syncKnownFiles, getMatches, the warning of the first check.
Tick ==
  /\ pollPc = "select"
  /\ ticks < MaxTicks
  /\ ticks' = ticks + 1
  /\ tickNo' = tickNo + 1
  /\ TickFlush
  /\ LET m == getMatches(Include, Exclude, ExistingPaths) IN
       /\ warned' = IF WarnNoMatches(m) THEN warned + 1 ELSE warned
       /\ batch' = m
       /\ IF Len(m) = 0
            THEN pollPc' = "select" /\ firstCheck' = FALSE
            ELSE pollPc' = "batch" /\ UNCHANGED firstCheck
  /\ UNCHANGED <<opc, startAtBeginning, knownFiles, readers, newReader, scanLeft,
                 waiting, active, dir, content, qlen, emitted, restarts, renames,
                 cleanRot, otherVars>>

\* The loop over the matches moves on: the next match, or `firstCheck = false`
\* and back to the select.
NextMatch ==
  /\ batch' = Tail(batch)
  /\ IF Len(batch) = 1
       THEN pollPc' = "select" /\ firstCheck' = FALSE
       ELSE pollPc' = "batch" /\ UNCHANGED firstCheck

\* newFileReader: `startAtBeginning := !firstCheck || f.startAtBeginning`
NewStartAtBeginning(first) == ~first \/ startAtBeginning

\* FileReader.Initialize: the reader's fingerprint, and its offset at the
\* beginning or at the end of the file.
Initialize(path, atBeginning) ==
  [Path |-> path,
   Fingerprint |-> FingerprintOf(dir[path]),
   Offset |-> IF atBeginning THEN 0 ELSE Len(content[dir[path]])]

\* checkPath for the next match. A known path schedules a ReadToEnd on its
\* reader. An unknown path enters newFileReader: Initialize (an error, the file
\* is gone, ends checkPath), then the search of knownFiles.
CheckPath ==
  /\ pollPc = "batch"
  /\ LET path == Head(batch) IN
       IF knownFiles[path] # 0
         THEN /\ waiting' = [waiting EXCEPT ![knownFiles[path]] = @ + 1]
              /\ NextMatch
              /\ UNCHANGED <<newReader, scanLeft>>
         ELSE IF dir[path] = 0
           THEN /\ NextMatch
                /\ UNCHANGED <<waiting, newReader, scanLeft>>
           ELSE /\ newReader' = Initialize(path, NewStartAtBeginning(firstCheck))
                /\ scanLeft' = KnownPaths
                /\ pollPc' = "scan"
                /\ UNCHANGED <<waiting, batch, firstCheck>>
  /\ UNCHANGED <<opc, startAtBeginning, knownFiles, readers, persisted, active, dir,
                 content, qlen, emitted, warned, ticks, tickNo, restarts, renames,
                 cleanRot, otherVars>>

\* newFileReader on a match: `reader.Path = path`.
RenamedReader(fr, path) == [fr EXCEPT !.Path = path]

\* newFileReader on a match: `delete(f.knownFiles, oldPath)`, then
\* `f.knownFiles[path] = newReader` with the old reader.
RenamedKnownFiles(oldPath, path, r) ==
  [[knownFiles EXCEPT ![oldPath] = 0] EXCEPT ![path] = r]

\* newFileReader's loop over knownFiles, one reader per step: the reader is
\* locked (the step waits for a running ReadToEnd to unlock it) and its
\* fingerprint compared. On a match the old reader takes the new path and
\* checkPath schedules a ReadToEnd on it.
ScanKnown ==
  /\ pollPc = "scan"
  /\ \E oldPath \in scanLeft :
       LET r == knownFiles[oldPath] IN
       /\ ~ReaderLocked(r)
       /\ IF FpMatches(newReader.Fingerprint, readers[r].Fingerprint)
            THEN /\ readers' = [readers EXCEPT
                                  ![r] = RenamedReader(@, newReader.Path)]
                 /\ knownFiles' = RenamedKnownFiles(oldPath, newReader.Path, r)
                 /\ waiting' = [waiting EXCEPT ![r] = @ + 1]
                 /\ newReader' = NoReader
                 /\ scanLeft' = {}
                 /\ NextMatch
            ELSE /\ scanLeft' = scanLeft \ {oldPath}
                 /\ UNCHANGED <<readers, knownFiles, waiting, newReader, batch,
                                pollPc, firstCheck>>
  /\ UNCHANGED <<opc, startAtBeginning, persisted, active, dir, content, qlen,
                 emitted, warned, ticks, tickNo, restarts, renames, cleanRot, otherVars>>

\* newFileReader found no matching reader: the new reader is registered under
\* the path and checkPath schedules a ReadToEnd on it.
ScanNew ==
  /\ pollPc = "scan"
  /\ scanLeft = {}
  /\ readers' = Append(readers, newReader)
  /\ knownFiles' = [knownFiles EXCEPT ![newReader.Path] = Len(readers) + 1]
  /\ waiting' = Append(waiting, 1)
  /\ active' = Append(active, 0)
  /\ newReader' = NoReader
  /\ NextMatch
  /\ UNCHANGED <<opc, startAtBeginning, persisted, scanLeft, dir, content, qlen,
                 emitted, warned, ticks, tickNo, restarts, renames, cleanRot, otherVars>>

\* ---- FileReader.ReadToEnd ----
\* The reader is locked and its file opened. A file that is gone ends the
\* call. A file shorter than the offset (truncated) or with another
\* fingerprint (replaced in place) is read from offset 0, as the file with the
\* fingerprint it has now.
ReadBegin(r) ==
  /\ waiting[r] > 0
  /\ ~ReaderLocked(r)
  /\ waiting' = [waiting EXCEPT ![r] = @ - 1]
  /\ LET i == dir[readers[r].Path] IN
       IF i = 0
         THEN UNCHANGED <<active, readers>>
         ELSE /\ active' = [active EXCEPT ![r] = i]
              /\ IF \/ Len(content[i]) < readers[r].Offset
                    \/ ~FpMatches(FingerprintOf(i), readers[r].Fingerprint)
                   THEN readers' = [readers EXCEPT ![r].Offset = 0,
                                                   ![r].Fingerprint = FingerprintOf(i)]
                   ELSE UNCHANGED readers
  /\ UNCHANGED <<opc, startAtBeginning, knownFiles, persisted, pollPc, firstCheck,
                 batch, newReader, scanLeft, dir, content, qlen, emitted, warned,
                 ticks, tickNo, restarts, renames, cleanRot, otherVars>>

\* One record is read at the offset and handed to the downstream queue (the
\* send blocks while the queue is full); only then the offset advances.
ReadEmit(r) ==
  /\ active[r] # 0
  /\ ~Cancelled
  /\ readers[r].Offset < Len(content[active[r]])
  /\ qlen < QueueCap
  /\ qlen' = qlen + 1
  /\ emitted' = [emitted EXCEPT ![active[r]] =
                    Append(@, content[active[r]][readers[r].Offset + 1])]
  /\ readers' = [readers EXCEPT ![r].Offset = @ + 1]
  /\ UNCHANGED <<opc, startAtBeginning, knownFiles, persisted, pollPc, firstCheck,
                 batch, newReader, scanLeft, waiting, active, dir, content, warned,
                 ticks, tickNo, restarts, renames, cleanRot, otherVars>>

\* The end of the file, or the cancellation of the context, ends the call: the
\* file is closed and the reader unlocked.
ReadEnd(r) ==
  /\ active[r] # 0
  /\ Cancelled \/ readers[r].Offset >= Len(content[active[r]])
  /\ active' = [active EXCEPT ![r] = 0]
  /\ UNCHANGED <<opc, startAtBeginning, knownFiles, readers, persisted, pollPc,
                 firstCheck, batch, newReader, scanLeft, waiting, dir, content,
                 qlen, emitted, warned, ticks, tickNo, restarts, renames,
                 cleanRot, otherVars>>

\* The operator, its goroutines and the downstream consumer.
NextOperator ==
  \/ Start
  \/ StopCancel
  \/ StopSync
  \/ PollExit
  \/ Tick
  \/ CheckPath
  \/ ScanKnown
  \/ ScanNew
  \/ \E r \in ReaderIds : ReadBegin(r)
  \/ \E r \in ReaderIds : ReadEmit(r)
  \/ \E r \in ReaderIds : ReadEnd(r)
  \/ Receive

\* Files are created and appended to; none is renamed.
NextRestart ==
  \/ NextOperator
  \/ \E p \in FilePaths : CreateFile(p)
  \/ \E p \in FilePaths : AppendFile(p)

Next ==
  \/ NextRestart
  \/ \E p \in FilePaths, q \in FilePaths : RenameFile(p, q)

Spec == InitFile /\ [][Next]_vars

SpecRestart == InitFile /\ [][NextRestart]_vars

\* ---- the claims about the file input operator ----
\* The reader registered under a path.
ReaderAt(p) == readers[knownFiles[p]]

\* The records of s are consecutive records of the file c, ending at offset off.
RunEndingAt(s, c, off) ==
  /\ Len(s) <= off
  /\ off <= Len(c)
  /\ s = SubSeq(c, off - Len(s) + 1, off)

\* The offsets stored by the last syncKnownFiles, by path (-1: no record).
PersistedOffset(p) ==
  IF \E k \in 1..Len(persisted.recs) : DecodeReader(persisted.recs[k]).Path = p
    THEN DecodeReader(persisted.recs[
            CHOOSE k \in 1..Len(persisted.recs) :
               DecodeReader(persisted.recs[k]).Path = p]).Offset
    ELSE -1

\* C1: across Stop and Start the records emitted for a file that is appended to
\* are consecutive records of the file, each emitted once, up to the reader's
\* offset: Start resumes at the offset Stop stored, with no record emitted twice
\* and none skipped.
C1_RestartNoDuplicateNoLoss ==
  /\ \A p \in FilePaths :
        (knownFiles[p] # 0 /\ dir[p] # 0) =>
            RunEndingAt(emitted[dir[p]], content[dir[p]], ReaderAt(p).Offset)
  /\ \A i \in Inodes :
        (\A p \in FilePaths : dir[p] = i => knownFiles[p] = 0) => emitted[i] = <<>>
  /\ opc = "stopped" =>
        \A p \in KnownPaths : PersistedOffset(p) = ReaderAt(p).Offset

\* After a restart the operator has emitted records of a file that were
\* appended before and after the Stop: the stored offset is the one Stop
\* flushed, and the reader has gone past it.
C1_Witness ==
  /\ restarts = 1
  /\ opc = "running"
  /\ knownFiles[1] # 0
  /\ dir[1] # 0
  /\ PersistedOffset(1) >= 1
  /\ PersistedOffset(1) < ReaderAt(1).Offset
  /\ Len(emitted[dir[1]]) = MaxRecords

\* No record of any file is emitted twice.
NoDuplicates ==
  \A i \in Inodes : Cardinality(Range(emitted[i])) = Len(emitted[i])

\* C6: after a rotation by rename between two ticks, the renamed content goes on
\* at the original reader's offset and the new content is read from the
\* beginning by a fresh reader: no record of either file is emitted twice, and
\* the records of a file are emitted in the file's order from the reader's
\* first offset.
C6_RotationExactlyOnce ==
  cleanRot =>
     /\ NoDuplicates
     /\ \A i \in Inodes : \E off \in 0..Len(content[i]) :
           RunEndingAt(emitted[i], content[i], off)

\* The stored document holds exactly the known readers, as they are now.
PersistedIsCurrent == persisted \in syncKnownFiles

\* C2: Stop cancels, waits for the poll loop and every ReadToEnd, stores the
\* known readers and returns: it stores only once the WaitGroup is at zero,
\* what it stored is the readers as they are after Stop, and after Stop nothing
\* is emitted and no offset moves.
C2_StopCancelWaitPersist ==
  /\ [](opc = "stopped" => (WgZero /\ PersistedIsCurrent))
  /\ [][(opc' = "stopped" /\ opc # "stopped") => (opc = "waiting" /\ WgZero)]_vars
  /\ [][(opc = "stopped" /\ opc' = "stopped") =>
          UNCHANGED <<emitted, readers, knownFiles, persisted>>]_vars

\* Stop has returned with two known readers, one of which has emitted.
C2_Witness ==
  /\ opc = "stopped"
  /\ Cardinality(KnownPaths) = 2
  /\ \E p \in KnownPaths : ReaderAt(p).Offset >= 1 /\ dir[p] # 0 /\ emitted[dir[p]] # <<>>

\* C7: a new reader (unknown path, no known reader with a matching fingerprint)
\* starts at the end of the file exactly when start_at is `end` and the tick is
\* the first one after Start, and at offset 0 otherwise; it is registered as
\* created.
C7_NewReaderPosition ==
  /\ [][(pollPc = "batch" /\ pollPc' = "scan") =>
          newReader'.Offset =
             IF ~startAtBeginning /\ tickNo = 1
               THEN Len(content[dir[Head(batch)]])
               ELSE 0]_vars
  /\ [][(pollPc = "scan" /\ Len(readers') = Len(readers) + 1) =>
          /\ readers'[Len(readers')] = newReader
          /\ knownFiles'[newReader.Path] = Len(readers')]_vars

\* In the first tick after a restart, with start_at `end` and a reader loaded
\* for another path, a reader positioned at the end of its file is registered.
C7_Witness ==
  /\ restarts = 1
  /\ tickNo = 1
  /\ ~startAtBeginning
  /\ \E p \in KnownPaths : knownFiles[p] = Len(readers) /\ knownFiles[p] >= 2
                           /\ ReaderAt(p).Offset >= 1 /\ emitted[dir[p]] = <<>>

\* The paths of the stored document.
PersistedPaths ==
  {DecodeReader(persisted.recs[k]).Path : k \in 1..Len(persisted.recs)}

\* C8 as stated: once the batch of a tick is processed, the stored document
\* holds the readers known then, those created in the tick included.
C8_PersistAfterBatch ==
  (opc = "running" /\ pollPc = "select" /\ tickNo >= 1) => PersistedPaths = KnownPaths

\* C8 as amended: every tick stores the known readers as they are when the
\* tick begins, before its matches are processed, and Stop stores them as they
\* are when it returns; nothing else changes the stored document.
C8_PersistBeforeBatch ==
  /\ [][(tickNo' = tickNo + 1) => persisted' \in syncKnownFiles]_vars
  /\ [][(opc' = "stopped" /\ opc = "waiting") =>
          (persisted' \in syncKnownFiles /\ UNCHANGED <<knownFiles, readers>>)]_vars
  /\ [][persisted' # persisted => (tickNo' = tickNo + 1 \/ opc' = "stopped")]_vars

\* A tick has stored a reader that an earlier tick created, and the tick's own
\* new reader is not in the stored document.
C8_Witness ==
  /\ opc = "running"
  /\ pollPc = "select"
  /\ tickNo = 2
  /\ PersistedPaths # {}
  /\ PersistedPaths # KnownPaths

\* ---- termination of Stop ----
\* The reader ids of the fairness conditions.
ReaderBound == 1..(MaxTicks * MaxFilePath)

ReadBeginOf(r) == r \in ReaderIds /\ ReadBegin(r)

ReadEndOf(r) == r \in ReaderIds /\ ReadEnd(r)

\* Every goroutine that can run does run, and a select whose ctx.Done() case
\* is ready again and again takes it at last.
SpecFair ==
  /\ InitFile
  /\ [][Next]_vars
  /\ WF_vars(CheckPath)
  /\ WF_vars(ScanKnown)
  /\ WF_vars(ScanNew)
  /\ SF_vars(PollExit)
  /\ WF_vars(StopSync)
  /\ \A r \in ReaderBound : WF_vars(ReadBeginOf(r)) /\ WF_vars(ReadEndOf(r))

\* C9: a Stop that was called returns.
C9_StopReturns == (opc = "waiting") ~> (opc = "stopped")

\* Stop was called while a ReadToEnd was blocked on the full downstream queue.
C9_Witness ==
  /\ opc = "stopped"
  /\ qlen = QueueCap
  /\ \E p \in KnownPaths : dir[p] # 0 /\ ReaderAt(p).Offset < Len(content[dir[p]])

\* ---- persisting and loading the known readers ----
\* The paths that loadKnownFiles registers from a stored document.
LoadedPaths(doc) == {p \in FilePaths : LoadedKnownFiles(doc)[p] # 0}

\* The reader that loadKnownFiles registers under a path.
LoadedReaderAt(doc, p) == LoadedReaders(doc)[LoadedKnownFiles(doc)[p]]

C14_RenameKeepsReader ==
  [][(pollPc = "scan" /\ pollPc' # "scan" /\ Len(readers') = Len(readers)) =>
       \E P \in KnownPaths :
          LET Q == newReader.Path
              r == knownFiles[P]
          IN /\ P # Q
             /\ FpMatches(newReader.Fingerprint, readers[r].Fingerprint)
             /\ knownFiles'[Q] = r
             /\ knownFiles'[P] = 0
             /\ readers'[r] = [Path |-> Q,
                               Fingerprint |-> readers[r].Fingerprint,
                               Offset |-> readers[r].Offset]
             /\ \A x \in ReaderIds \ {r} : readers'[x] = readers[x]
             /\ Cardinality({p \in FilePaths : knownFiles'[p] # 0})
                   = Cardinality(KnownPaths)
             /\ newReader' = NoReader
             /\ waiting' = [waiting EXCEPT ![r] = @ + 1]]_vars

\* The reader stored under path 1 by the tick's flush is now known under path 2
\* only, at the offset it had reached, with a ReadToEnd scheduled on it.
C14_Witness ==
  /\ opc = "running"
  /\ PersistedPaths = {1}
  /\ KnownPaths = {2}
  /\ Len(readers) = 1
  /\ readers[1].Path = 2
  /\ readers[1].Offset >= 1
  /\ readers[1].Offset = PersistedOffset(1)
  /\ waiting[1] >= 1

\* ---- who accesses knownFiles ----
\* C15: knownFiles changes only in Start's load and in steps of the poll loop
\* (checkPath, newFileReader), never in a step of a ReadToEnd; Start's load and
\* Stop's syncKnownFiles run only while the poll loop is not running and no
\* ReadToEnd is scheduled or running.
C15_KnownFilesSingleWriter ==
  /\ [][knownFiles' # knownFiles =>
          \/ opc # "running" /\ opc' = "running"
          \/ /\ pollPc \in {"batch", "scan"}
             /\ UNCHANGED <<emitted, qlen>>
             /\ \A r \in ReaderIds : active'[r] = active[r]]_vars
  /\ [][(\/ opc # "running" /\ opc' = "running"
         \/ opc = "waiting" /\ opc' = "stopped") =>
          /\ pollPc = "off"
          /\ \A r \in ReaderIds : waiting[r] = 0 /\ active[r] = 0]_vars

\* After a restart whose load registered a reader, the poll loop has registered
\* a second one, and Stop has stored both.
C15_Witness ==
  /\ opc = "stopped"
  /\ restarts = 1
  /\ Cardinality(KnownPaths) = 2
  /\ PersistedPaths = KnownPaths
  /\ tickNo >= 1

C18_WarnOnceOnFirstTick ==
  /\ [](warned <= 1)
  /\ [][tickNo' = tickNo + 1 =>
          warned' = warned + (IF tickNo = 0 /\ ExistingPaths = {} THEN 1 ELSE 0)]_vars
  /\ [][(tickNo' = tickNo /\ opc' = opc) => warned' = warned]_vars

\* Two ticks found no file: the first one warned, the second did not.
C18_Witness ==
  /\ tickNo = 2
  /\ warned = 1
  /\ ExistingPaths = {}
  /\ TotalRecords = 0

\* ---- keys and paths ----
\* C20: every key of knownFiles is the Path of the reader it maps to, and no
\* reader is registered under two keys.
C20_KeysArePaths ==
  /\ \A p \in KnownPaths : ReaderAt(p).Path = p
  /\ \A p \in KnownPaths : \A q \in KnownPaths :
        knownFiles[p] = knownFiles[q] => p = q

\* After a rename was detected, and its ReadToEnd done, Stop has been called:
\* the reader stored under path 1 is known under path 2.
C20_Witness ==
  /\ opc = "waiting"
  /\ PersistedPaths = {1}
  /\ KnownPaths = {2}
  /\ ReaderAt(2).Offset > PersistedOffset(1)
  /\ \A r \in ReaderIds : waiting[r] = 0 /\ active[r] = 0

\* ------------------------------------------------------------------------
\* LogAgent with a pipeline of one file input operator
\* ------------------------------------------------------------------------
\* LogAgent.Start up to the call of a.pipeline.Start(): the database is opened
\* and the pipeline built (Start's failures are in SpecAgent).
AgentStartOpen ==
  /\ apc = "idle"
  /\ ~running
  /\ calls < MaxCalls
  /\ opc = "stopped" => restarts < MaxRestarts
  /\ OpenDatabaseOk(FALSE)
  /\ database' = "open"
  /\ dbHolder' = "agent"
  /\ pipeline' = "built"
  /\ dbOpens' = dbOpens + 1
  /\ builds' = builds + 1
  /\ stagesRun' = <<"open database", "load registry", "build pipeline">>
  /\ stageFailed' = {}
  /\ ret' = "none"
  /\ lastOp' = "Start"
  /\ prevRunning' = running
  /\ calls' = calls + 1
  /\ apc' = "starting"
  /\ UNCHANGED <<running, pstarts, pstops, matchVars, copyVars, fileVars, cmdVars>>

\* a.pipeline.Start() starts the operator.
PipelineStart ==
  /\ apc = "starting"
  /\ Start

\* a.pipeline.Start() has returned nil: `a.running = true`, return nil.
AgentStartReturn ==
  /\ apc = "starting"
  /\ opc = "running"
  /\ pstarts' = pstarts + 1
  /\ pstops' = 0
  /\ pipeline' = "started"
  /\ running' = TRUE
  /\ stagesRun' = Append(stagesRun, "Start pipeline")
  /\ ret' = "nil"
  /\ apc' = "idle"
  /\ UNCHANGED <<database, dbHolder, lastOp, prevRunning, calls, dbOpens, builds,
                 stageFailed, matchVars, copyVars, fileVars, cmdVars>>

\* LogAgent.Stop of a running agent, up to the call of a.pipeline.Stop().
AgentStopCall ==
  /\ apc = "idle"
  /\ running
  /\ calls < MaxCalls
  /\ ret' = "none"
  /\ lastOp' = "Stop"
  /\ prevRunning' = running
  /\ calls' = calls + 1
  /\ apc' = "stopping"
  /\ UNCHANGED <<running, database, pipeline, dbHolder, dbOpens, builds, pstarts,
                 pstops, stagesRun, stageFailed, matchVars, copyVars, fileVars,
                 cmdVars>>

\* a.pipeline.Stop() stops the operator: InputOperator.Stop is called.
PipelineStopCancel ==
  /\ apc = "stopping"
  /\ StopCancel

\* LogAgent.Stop without `a.pipeline.Stop()`.
PipelineStopSkipped == TRUE

\* `a.pipeline.Stop()` has returned: the operator's Stop has.
PipelineStopReturned == opc = "stopped"

\* LogAgent.Stop after a.pipeline.Stop(): the pipeline is dropped, the database
\* closed and dropped, `a.running = false`.
AgentStopReturn ==
  /\ apc = "stopping"
  /\ PipelineStopReturned
  /\ pstops' = pstops + 1
  /\ pipeline' = "nil"
  /\ database' = "nil"
  /\ dbHolder' = "none"
  /\ running' = FALSE
  /\ builds' = 0
  /\ pstarts' = 0
  /\ apc' = "idle"
  /\ UNCHANGED <<ret, lastOp, prevRunning, calls, dbOpens, stagesRun, stageFailed,
                 matchVars, copyVars, fileVars, cmdVars>>

\* The agent, its operator's goroutines, the file system and the consumer.
NextAgentFile ==
  \/ AgentStartOpen
  \/ PipelineStart
  \/ AgentStartReturn
  \/ AgentStopCall
  \/ PipelineStopCancel
  \/ StopSync
  \/ AgentStopReturn
  \/ PollExit
  \/ Tick
  \/ CheckPath
  \/ ScanKnown
  \/ ScanNew
  \/ \E r \in ReaderIds : ReadBegin(r)
  \/ \E r \in ReaderIds : ReadEmit(r)
  \/ \E r \in ReaderIds : ReadEnd(r)
  \/ Receive
  \/ \E p \in FilePaths : CreateFile(p)
  \/ \E p \in FilePaths : AppendFile(p)

SpecAgentFile == InitFile /\ [][NextAgentFile]_vars

\* C17: Stop of a running agent closes the database only once the pipeline's
\* Stop has returned, the operator's last syncKnownFiles done and its
\* goroutines ended; every write and every load of the persister happens with
\* the database open; after Stop the agent has no pipeline and no database and
\* is not running.
C17_StopPipelineBeforeDatabase ==
  /\ [][(\/ tickNo' = tickNo + 1
         \/ opc = "waiting" /\ opc' = "stopped"
         \/ opc # "running" /\ opc' = "running") => database = "open"]_vars
  /\ [][(database = "open" /\ database' = "nil") =>
          /\ opc = "stopped"
          /\ WgZero
          /\ PersistedIsCurrent
          /\ ~running' /\ pipeline' = "nil"]_vars
  /\ []((lastOp = "Stop" /\ apc = "idle") =>
          /\ ~running /\ pipeline = "nil" /\ database = "nil"
          /\ opc = "stopped")

\* The agent was stopped after its operator had read from a file: the database
\* is closed and the last stored document holds the reader's offset.
C17_Witness ==
  /\ lastOp = "Stop"
  /\ apc = "idle"
  /\ database = "nil"
  /\ \E p \in KnownPaths : ReaderAt(p).Offset >= 1 /\ PersistedOffset(p) = ReaderAt(p).Offset
  /\ \E i \in Inodes : emitted[i] # <<>>

====
